---- MODULE Spec2Model ----
(***************************************************************************)
(* A model of src/server.c: a multithreaded HTTP/1.1 server.  The acceptor *)
(* (run_server) accepts TCP connections and hands each one to a detached   *)
(* thread (client_thread / handle_request) that reads one request, parses  *)
(* the request line, dispatches to the route table or the static file      *)
(* resolver, writes one response and closes the connection.                *)
(*                                                                         *)
(* A byte is a one-character string; NUL is the terminator.  A C string is *)
(* the sequence of bytes before its terminator.                            *)
(***************************************************************************)
EXTENDS Integers, Sequences, FiniteSets, TLC

(* ---------------------------------------------------------------------- *)
(* Configuration constants (server.c:32-47)                                *)
(* ---------------------------------------------------------------------- *)
BUFFER_SIZE == 8192
MAX_PATH_SIZE == 512
MAX_METHOD_SIZE == 16
MAX_QUERY_PARAMS == 32
MAX_PARAM_SIZE == 256
HTTP_OK == 200
HTTP_BAD_REQUEST == 400
HTTP_NOT_FOUND == 404
HTTP_METHOD_NOT_ALLOWED == 405
HTTP_INTERNAL_ERROR == 500
DOCUMENT_ROOT == <<".", "/", "p", "u", "b", "l", "i", "c">>
DEFAULT_INDEX == <<"i", "n", "d", "e", "x", ".", "h", "t", "m", "l">>

(* ---------------------------------------------------------------------- *)
(* Bounds of the model                                                     *)
(* ---------------------------------------------------------------------- *)
\* connections the peers may open in the concurrent specification
MaxConn == 2

(* ---------------------------------------------------------------------- *)
(* Bytes and the C string functions the server uses                        *)
(* ---------------------------------------------------------------------- *)
NUL == "NUL"
CRLF == <<"\r", "\n">>
SP == <<" ">>

Take(s, n) == SubSeq(s, 1, IF n < Len(s) THEN n ELSE Len(s))
Drop(s, n) == SubSeq(s, n + 1, Len(s))

MinOf(S) == CHOOSE i \in S : \A j \in S : i <= j
MaxOf(S) == CHOOSE i \in S : \A j \in S : j <= i

\* index of the first occurrence of byte c in s, 0 when there is none
strchr(s, c) ==
    LET hits == {i \in 1..Len(s) : s[i] = c} IN
    IF hits = {} THEN 0 ELSE MinOf(hits)

\* index of the last occurrence of byte c in s, 0 when there is none
strrchr(s, c) ==
    LET hits == {i \in 1..Len(s) : s[i] = c} IN
    IF hits = {} THEN 0 ELSE MaxOf(hits)

IsPrefixAt(s, pat, i) ==
    /\ i + Len(pat) - 1 <= Len(s)
    /\ \A k \in 1..Len(pat) : s[i + k - 1] = pat[k]

\* index of the first occurrence of pat in s, 0 when there is none
strstr(s, pat) ==
    LET hits == {i \in 1..Len(s) : IsPrefixAt(s, pat, i)} IN
    IF hits = {} THEN 0 ELSE MinOf(hits)

UpperCase == <<"A", "B", "C", "D", "E", "F", "G", "H", "I", "J", "K", "L", "M", "N", "O", "P", "Q", "R", "S", "T", "U", "V", "W", "X", "Y", "Z">>
LowerCase == <<"a", "b", "c", "d", "e", "f", "g", "h", "i", "j", "k", "l", "m", "n", "o", "p", "q", "r", "s", "t", "u", "v", "w", "x", "y", "z">>

tolower(c) ==
    LET i == strchr(UpperCase, c) IN IF i = 0 THEN c ELSE LowerCase[i]

\* strcasecmp(a, b) == 0
strcasecmp_eq(a, b) ==
    /\ Len(a) = Len(b)
    /\ \A i \in 1..Len(a) : tolower(a[i]) = tolower(b[i])

DigitChar == <<"0", "1", "2", "3", "4", "5", "6", "7", "8", "9">>

RECURSIVE Decimal(_)
\* the text printf's %d / %zu conversions produce for a natural number
Decimal(n) ==
    IF n < 10 THEN <<DigitChar[n + 1]>>
    ELSE Decimal(n \div 10) \o <<DigitChar[(n % 10) + 1]>>

\* a string literal as it lies in memory: its characters and the terminator
Literal(chars) == chars \o <<NUL>>
\* strlen of a memory object
strlen(obj) == LET i == strchr(obj, NUL) IN IF i = 0 THEN Len(obj) ELSE i - 1

(* ---------------------------------------------------------------------- *)
(* Response buffer (server.c:139-191)                                      *)
(* ---------------------------------------------------------------------- *)
NoResponse == [data |-> <<>>, size |-> 0, capacity |-> 0, alloc |-> FALSE]

\* response_init with malloc's outcome: the buffer, or NoResponse on failure
response_init(initial_capacity, malloc_ok) ==
    IF malloc_ok
    THEN [data |-> <<>>, size |-> 0, capacity |-> initial_capacity, alloc |-> TRUE]
    ELSE NoResponse

RECURSIVE DoubleUntil(_, _)
DoubleUntil(cap, need) == IF cap < need THEN DoubleUntil(cap * 2, need) ELSE cap

\* a response_append that grows the buffer to the size needed and no further
response_append_exact(res, data, len, realloc_ok) ==
    IF res.size + len + 1 > res.capacity
    THEN IF ~realloc_ok
         THEN [rc |-> -1, res |-> res]
         ELSE [rc |-> 0,
               res |-> [res EXCEPT !.data = res.data \o Take(data, len),
                                   !.size = res.size + len,
                                   !.capacity = res.size + len + 1]]
    ELSE [rc |-> 0,
          res |-> [res EXCEPT !.data = res.data \o Take(data, len),
                              !.size = res.size + len]]

\* response_append of the first len bytes of data, with realloc's outcome
response_append(res, data, len, realloc_ok) ==
    IF res.size + len + 1 > res.capacity
    THEN LET new_capacity == DoubleUntil(res.capacity * 2, res.size + len + 1) IN
         IF ~realloc_ok
         THEN [rc |-> -1, res |-> res]
         ELSE [rc |-> 0,
               res |-> [res EXCEPT !.data = res.data \o Take(data, len),
                                   !.size = res.size + len,
                                   !.capacity = new_capacity]]
    ELSE [rc |-> 0,
          res |-> [res EXCEPT !.data = res.data \o Take(data, len),
                              !.size = res.size + len]]

\* response_printf of an already rendered text
response_printf(res, text, realloc_ok) ==
    IF Len(text) >= BUFFER_SIZE
    THEN [rc |-> -1, res |-> res]
    ELSE response_append(res, text, Len(text), realloc_ok)

\* a response_free that forgets free(res->data)
response_free_leak(res) == [res EXCEPT !.size = 0]

response_free(res) == NoResponse

StatusText(status) ==
    CASE status = HTTP_OK -> <<"O", "K">>
      [] status = HTTP_BAD_REQUEST -> <<"B", "a", "d", " ", "R", "e", "q", "u", "e", "s", "t">>
      [] status = HTTP_NOT_FOUND -> <<"N", "o", "t", " ", "F", "o", "u", "n", "d">>
      [] status = HTTP_METHOD_NOT_ALLOWED -> <<"M", "e", "t", "h", "o", "d", " ", "N", "o", "t", " ", "A", "l", "l", "o", "w", "e", "d">>
      [] status = HTTP_INTERNAL_ERROR -> <<"I", "n", "t", "e", "r", "n", "a", "l", " ", "S", "e", "r", "v", "e", "r", " ", "E", "r", "r", "o", "r">>
      [] OTHER -> <<"U", "n", "k", "n", "o", "w", "n">>

\* send_http_response: the five header lines, then the first body_len bytes of
\* body; every return value of response_printf/response_append is ignored
send_http_response(res, status, content_type, body, body_len, realloc_ok) ==
    LET r1 == response_printf(res,
                  <<"H", "T", "T", "P", "/", "1", ".", "1", " ">> \o Decimal(status) \o SP \o StatusText(status) \o CRLF,
                  realloc_ok).res
        r2 == response_printf(r1, <<"C", "o", "n", "t", "e", "n", "t", "-", "T", "y", "p", "e", ":", " ">> \o content_type \o CRLF,
                  realloc_ok).res
        r3 == response_printf(r2, <<"C", "o", "n", "t", "e", "n", "t", "-", "L", "e", "n", "g", "t", "h", ":", " ">> \o Decimal(body_len) \o CRLF,
                  realloc_ok).res
        r4 == response_printf(r3, <<"C", "o", "n", "n", "e", "c", "t", "i", "o", "n", ":", " ", "c", "l", "o", "s", "e">> \o CRLF, realloc_ok).res
        r5 == response_printf(r4, CRLF, realloc_ok).res
    IN  IF body_len > 0
        THEN response_append(r5, body, body_len, realloc_ok).res
        ELSE r5

(* ---------------------------------------------------------------------- *)
(* URL decoding and the query string (server.c:217-264)                    *)
(* ---------------------------------------------------------------------- *)
\* the byte of each value 0..255, a printable one as its character
ByteOf == <<
    "NUL", "x01", "x02", "x03", "x04", "x05", "x06", "x07",
    "x08", "\t", "\n", "x0b", "\f", "\r", "x0e", "x0f",
    "x10", "x11", "x12", "x13", "x14", "x15", "x16", "x17",
    "x18", "x19", "x1a", "x1b", "x1c", "x1d", "x1e", "x1f",
    " ", "!", "\"", "#", "$", "%", "&", "'",
    "(", ")", "*", "+", ",", "-", ".", "/",
    "0", "1", "2", "3", "4", "5", "6", "7",
    "8", "9", ":", ";", "<", "=", ">", "?",
    "@", "A", "B", "C", "D", "E", "F", "G",
    "H", "I", "J", "K", "L", "M", "N", "O",
    "P", "Q", "R", "S", "T", "U", "V", "W",
    "X", "Y", "Z", "[", "\\", "]", "^", "_",
    "x60", "a", "b", "c", "d", "e", "f", "g",
    "h", "i", "j", "k", "l", "m", "n", "o",
    "p", "q", "r", "s", "t", "u", "v", "w",
    "x", "y", "z", "{", "|", "}", "~", "x7f",
    "x80", "x81", "x82", "x83", "x84", "x85", "x86", "x87",
    "x88", "x89", "x8a", "x8b", "x8c", "x8d", "x8e", "x8f",
    "x90", "x91", "x92", "x93", "x94", "x95", "x96", "x97",
    "x98", "x99", "x9a", "x9b", "x9c", "x9d", "x9e", "x9f",
    "xa0", "xa1", "xa2", "xa3", "xa4", "xa5", "xa6", "xa7",
    "xa8", "xa9", "xaa", "xab", "xac", "xad", "xae", "xaf",
    "xb0", "xb1", "xb2", "xb3", "xb4", "xb5", "xb6", "xb7",
    "xb8", "xb9", "xba", "xbb", "xbc", "xbd", "xbe", "xbf",
    "xc0", "xc1", "xc2", "xc3", "xc4", "xc5", "xc6", "xc7",
    "xc8", "xc9", "xca", "xcb", "xcc", "xcd", "xce", "xcf",
    "xd0", "xd1", "xd2", "xd3", "xd4", "xd5", "xd6", "xd7",
    "xd8", "xd9", "xda", "xdb", "xdc", "xdd", "xde", "xdf",
    "xe0", "xe1", "xe2", "xe3", "xe4", "xe5", "xe6", "xe7",
    "xe8", "xe9", "xea", "xeb", "xec", "xed", "xee", "xef",
    "xf0", "xf1", "xf2", "xf3", "xf4", "xf5", "xf6", "xf7",
    "xf8", "xf9", "xfa", "xfb", "xfc", "xfd", "xfe", "xff" >>

HexDigits == <<"0", "1", "2", "3", "4", "5", "6", "7", "8", "9", "a", "b", "c", "d", "e", "f">>
IsHex(c) == \E i \in 1..16 : c = HexDigits[i] \/ c = UpperCase[i]
HexVal(c) == (CHOOSE i \in 1..16 : c = HexDigits[i] \/ c = UpperCase[i]) - 1
\* isspace() in the C locale
IsSpace(c) == c \in {" ", "\t", "\n", "\r", "\f", ByteOf[12]}

\* strtol(hex, &end, 16) of the two characters a b: the value, and how many
\* characters end lies behind hex.  strtol skips white space and takes a sign
\* before the digits
strtol16(a, b) ==
    IF IsHex(a) /\ IsHex(b) THEN [val |-> 16 * HexVal(a) + HexVal(b), end |-> 2]
    ELSE IF IsHex(a) THEN [val |-> HexVal(a), end |-> 1]
    ELSE IF (IsSpace(a) \/ a = "+") /\ IsHex(b) THEN [val |-> HexVal(b), end |-> 2]
    ELSE IF a = "-" /\ IsHex(b) THEN [val |-> 0 - HexVal(b), end |-> 2]
    ELSE [val |-> 0, end |-> 0]

\* server.c:221-229: at position p of src the loop decodes a triple
Decodes(src, p) ==
    /\ src[p] = "%"
    /\ p + 2 <= Len(src)
    /\ strtol16(src[p + 1], src[p + 2]).end = 2

\* server.c:218-238: the bytes url_decode writes to dst before the
\* terminator; src is a C string (no NUL inside), dst_size at least 1.  The
\* loop skips the two characters behind a "%" it decodes and visits every
\* other position; the characters it skips are never a "%" themselves, so the
\* triples it decodes are those Decodes holds of.  The k-th byte written comes
\* from the k-th position visited.
url_decode(src, dst_size) ==
    LET triples == {p \in 1..Len(src) : Decodes(src, p)}
        visited == {p \in 1..Len(src) : (p - 1) \notin triples /\ (p - 2) \notin triples}
        count == MinOf({Cardinality(visited), dst_size - 1})
        at == [p \in 1..Len(src) |-> Cardinality({q \in visited : q <= p})]
    IN  [k \in 1..count |->
            LET p == CHOOSE p \in visited : at[p] = k IN
            IF p \in triples
            THEN ByteOf[(strtol16(src[p + 1], src[p + 2]).val % 256) + 1]
            ELSE IF src[p] = "+" THEN " "
            ELSE src[p]]

\* strtok_r(buffer, "&", &saveptr) and its continuations: the tokens of s
\* from position p on
RECURSIVE Tokens(_, _)
Tokens(s, p) ==
    LET starts == {i \in p..Len(s) : s[i] # "&"} IN
    IF starts = {} THEN <<>>
    ELSE LET b == MinOf(starts)
             ends == {i \in b..Len(s) : s[i] = "&"}
             e == IF ends = {} THEN Len(s) + 1 ELSE MinOf(ends)
         IN  <<SubSeq(s, b, e - 1)>> \o Tokens(s, e + 1)

\* server.c:251-263: the loop over the tokens, count pairs being stored
RECURSIVE StorePairs(_, _, _)
StorePairs(tokens, k, params) ==
    IF k > Len(tokens) \/ Len(params) >= MAX_QUERY_PARAMS THEN params
    ELSE LET pair == tokens[k]
             equals == strchr(pair, "=")
         IN  IF equals # 0
             THEN StorePairs(tokens, k + 1,
                      Append(params,
                             [key |-> url_decode(Take(pair, equals - 1), MAX_PARAM_SIZE),
                              value |-> url_decode(Drop(pair, equals), MAX_PARAM_SIZE)]))
             ELSE StorePairs(tokens, k + 1, params)

\* server.c:241-264: params->params[0 .. count-1]
parse_query_string(query) ==
    IF query = <<>> THEN <<>>
    ELSE StorePairs(Tokens(Take(query, BUFFER_SIZE - 1), 1), 1, <<>>)

(* ---------------------------------------------------------------------- *)
(* Request parser (server.c:276-321)                                       *)
(* ---------------------------------------------------------------------- *)
ParseError == [rc |-> -1, method |-> <<>>, path |-> <<>>, query_string |-> <<>>]

\* parse_request_line on the C string read from the socket
parse_request_line(request) ==
    LET space1 == strchr(request, " ") IN
    IF space1 = 0 THEN ParseError
    ELSE
    LET method_len == space1 - 1 IN
    IF method_len >= MAX_METHOD_SIZE THEN ParseError
    ELSE
    LET rest == Drop(request, space1)
        space2 == strchr(rest, " ")
    IN
    IF space2 = 0 THEN ParseError
    ELSE
    LET uri_len == space2 - 1 IN
    IF uri_len >= MAX_PATH_SIZE THEN ParseError
    ELSE
    LET uri == Take(rest, uri_len)
        question == strchr(uri, "?")
    IN  [rc |-> 0,
         method |-> Take(request, method_len),
         path |-> Take(IF question = 0 THEN uri ELSE Take(uri, question - 1),
                       MAX_PATH_SIZE - 1),
         query_string |-> IF question = 0 THEN <<>>
                          ELSE Take(Drop(uri, question), MAX_PATH_SIZE - 1)]

(* ---------------------------------------------------------------------- *)
(* MIME resolver (server.c:99-115, 323-337)                                *)
(* ---------------------------------------------------------------------- *)
mime_types == <<
    [extension |-> <<".", "h", "t", "m", "l">>, mime_type |-> <<"t", "e", "x", "t", "/", "h", "t", "m", "l">>],
    [extension |-> <<".", "h", "t", "m">>, mime_type |-> <<"t", "e", "x", "t", "/", "h", "t", "m", "l">>],
    [extension |-> <<".", "c", "s", "s">>, mime_type |-> <<"t", "e", "x", "t", "/", "c", "s", "s">>],
    [extension |-> <<".", "j", "s">>, mime_type |-> <<"a", "p", "p", "l", "i", "c", "a", "t", "i", "o", "n", "/", "j", "a", "v", "a", "s", "c", "r", "i", "p", "t">>],
    [extension |-> <<".", "j", "s", "o", "n">>, mime_type |-> <<"a", "p", "p", "l", "i", "c", "a", "t", "i", "o", "n", "/", "j", "s", "o", "n">>],
    [extension |-> <<".", "x", "m", "l">>, mime_type |-> <<"a", "p", "p", "l", "i", "c", "a", "t", "i", "o", "n", "/", "x", "m", "l">>],
    [extension |-> <<".", "p", "n", "g">>, mime_type |-> <<"i", "m", "a", "g", "e", "/", "p", "n", "g">>],
    [extension |-> <<".", "j", "p", "g">>, mime_type |-> <<"i", "m", "a", "g", "e", "/", "j", "p", "e", "g">>],
    [extension |-> <<".", "j", "p", "e", "g">>, mime_type |-> <<"i", "m", "a", "g", "e", "/", "j", "p", "e", "g">>],
    [extension |-> <<".", "g", "i", "f">>, mime_type |-> <<"i", "m", "a", "g", "e", "/", "g", "i", "f">>],
    [extension |-> <<".", "s", "v", "g">>, mime_type |-> <<"i", "m", "a", "g", "e", "/", "s", "v", "g", "+", "x", "m", "l">>],
    [extension |-> <<".", "i", "c", "o">>, mime_type |-> <<"i", "m", "a", "g", "e", "/", "x", "-", "i", "c", "o", "n">>],
    [extension |-> <<".", "t", "x", "t">>, mime_type |-> <<"t", "e", "x", "t", "/", "p", "l", "a", "i", "n">>],
    [extension |-> <<".", "p", "d", "f">>, mime_type |-> <<"a", "p", "p", "l", "i", "c", "a", "t", "i", "o", "n", "/", "p", "d", "f">>] >>

OctetStream == <<"a", "p", "p", "l", "i", "c", "a", "t", "i", "o", "n", "/", "o", "c", "t", "e", "t", "-", "s", "t", "r", "e", "a", "m">>

RECURSIVE MimeScan(_, _)
MimeScan(ext, i) ==
    IF i > Len(mime_types) THEN OctetStream
    ELSE IF strcasecmp_eq(ext, mime_types[i].extension) THEN mime_types[i].mime_type
    ELSE MimeScan(ext, i + 1)

get_mime_type(path) ==
    LET dot == strrchr(path, ".") IN
    IF dot = 0 THEN OctetStream ELSE MimeScan(Drop(path, dot - 1), 1)

(* ---------------------------------------------------------------------- *)
(* Path safety (server.c:339-348)                                          *)
(* ---------------------------------------------------------------------- *)
\* an is_safe_path without its strstr(path, "..") test
is_safe_path_lax(path) == Len(path) > 0 /\ path[1] = "/"

is_safe_path(path) ==
    IF strstr(path, <<".", ".">>) # 0 THEN FALSE
    ELSE IF Len(path) = 0 \/ path[1] # "/" THEN FALSE
    ELSE TRUE

(* ---------------------------------------------------------------------- *)
(* The filesystem the server runs on: the tree under the working           *)
(* directory, and path resolution as stat(2) and open(2) perform it        *)
(* ---------------------------------------------------------------------- *)
SmallPage == <<"<", "p", ">", "h", "i", "<", "/", "p", ">">>
BigFile == [i \in 1..(2 * BUFFER_SIZE) |-> IF i % 2 = 0 THEN "x" ELSE NUL]

\* a directory whose request path stays below MAX_PATH_SIZE while the path of
\* its index file does not (NAME_MAX is 255 on the systems the server runs on)
DeepA == [i \in 1..250 |-> "p"]
DeepB == [i \in 1..250 |-> "q"]

\* each entry: the path components below the working directory
FileSystem == {
    [name |-> <<<<"p", "u", "b", "l", "i", "c">>, DeepA>>, kind |-> "dir", content |-> <<>>],
    [name |-> <<<<"p", "u", "b", "l", "i", "c">>, DeepA, DeepB>>, kind |-> "dir", content |-> <<>>],
    [name |-> <<<<"p", "u", "b", "l", "i", "c">>, DeepA, DeepB, <<"i", "n", "d", "e", "x", ".", "h", "t", "m", "l">>>>, kind |-> "file",
     content |-> <<"<", "p", ">", "d", "e", "e", "p", "<", "/", "p", ">">>],
    [name |-> <<<<"p", "u", "b", "l", "i", "c">>>>, kind |-> "dir", content |-> <<>>],
    [name |-> <<<<"p", "u", "b", "l", "i", "c">>, <<"i", "n", "d", "e", "x", ".", "h", "t", "m", "l">>>>, kind |-> "file", content |-> SmallPage],
    [name |-> <<<<"p", "u", "b", "l", "i", "c">>, <<"a", ".", "t", "x", "t">>>>, kind |-> "file", content |-> <<"t", "e", "x", "t">>],
    [name |-> <<<<"p", "u", "b", "l", "i", "c">>, <<"X", ".", "P", "N", "G">>>>, kind |-> "file", content |-> <<"p", "n", "g">>],
    [name |-> <<<<"p", "u", "b", "l", "i", "c">>, <<"e", ".", "c", "s", "s">>>>, kind |-> "file", content |-> <<>>],
    [name |-> <<<<"p", "u", "b", "l", "i", "c">>, <<"b", "i", "g", ".", "b", "i", "n">>>>, kind |-> "file", content |-> BigFile],
    [name |-> <<<<"p", "u", "b", "l", "i", "c">>, <<"a", "b", "o", "u", "t">>>>, kind |-> "dir", content |-> <<>>],
    [name |-> <<<<"p", "u", "b", "l", "i", "c">>, <<"a", "b", "o", "u", "t">>, <<"i", "n", "d", "e", "x", ".", "h", "t", "m", "l">>>>, kind |-> "file",
     content |-> <<"<", "p", ">", "a", "b", "o", "u", "t", "<", "/", "p", ">">>],
    [name |-> <<<<"p", "u", "b", "l", "i", "c">>, <<"d">>>>, kind |-> "dir", content |-> <<>>],
    [name |-> <<<<"p", "u", "b", "l", "i", "c">>, <<"d">>, <<"i", "n", "d", "e", "x", ".", "h", "t", "m", "l">>>>, kind |-> "file",
     content |-> <<"<", "p", ">", "d", "<", "/", "p", ">">>],
    [name |-> <<<<"p", "u", "b", "l", "i", "c">>, <<"n">>>>, kind |-> "dir", content |-> <<>>] }

RECURSIVE Components(_)
\* the components of a path, empty ones and "." dropped
Components(p) ==
    IF Len(p) = 0 THEN <<>>
    ELSE LET slash == strchr(p, "/")
             first == IF slash = 0 THEN p ELSE Take(p, slash - 1)
             rest == IF slash = 0 THEN <<>> ELSE Components(Drop(p, slash))
         IN  IF first = <<>> \/ first = <<".">> THEN rest ELSE <<first>> \o rest

NoEntry == [name |-> <<>>, kind |-> "none", content |-> <<>>]

\* the entry a path names; a path with a trailing "/" names directories only
Resolve(p) ==
    LET comps == Components(p)
        hits == {e \in FileSystem : e.name = comps}
    IN  IF hits = {} THEN NoEntry
        ELSE LET e == CHOOSE e \in hits : TRUE IN
             IF Len(p) > 0 /\ p[Len(p)] = "/" /\ e.kind # "dir" THEN NoEntry ELSE e

(* ---------------------------------------------------------------------- *)
(* Static file resolver (server.c:350-407), in the stages between which    *)
(* other threads can run: up to open(), and from fstat() to the end        *)
(* ---------------------------------------------------------------------- *)
Page400 == Literal(<<"<", "h", "1", ">", "4", "0", "0", " ", "B", "a", "d", " ", "R", "e", "q", "u", "e", "s", "t", "<", "/", "h", "1", ">">>)
Page404 == Literal(<<"<", "h", "1", ">", "4", "0", "4", " ", "N", "o", "t", " ", "F", "o", "u", "n", "d", "<", "/", "h", "1", ">">>)
Page405 == Literal(<<"<", "h", "1", ">", "4", "0", "5", " ", "M", "e", "t", "h", "o", "d", " ", "N", "o", "t", " ", "A", "l", "l", "o", "w", "e", "d", "<", "/", "h", "1", ">">>)
Page500 == Literal(<<"<", "h", "1", ">", "5", "0", "0", " ", "I", "n", "t", "e", "r", "n", "a", "l", " ", "S", "e", "r", "v", "e", "r", " ", "E", "r", "r", "o", "r", "<", "/", "h", "1", ">">>)
TextHtml == <<"t", "e", "x", "t", "/", "h", "t", "m", "l">>

\* a StaticFilePath that appends the index name without the separator
StaticFilePath_nosep(request_path) ==
    LET filepath == Take(DOCUMENT_ROOT \o request_path, 2 * MAX_PATH_SIZE - 1) IN
    IF Resolve(filepath).kind = "dir"
    THEN Take(filepath \o DEFAULT_INDEX, 2 * MAX_PATH_SIZE - 1)
    ELSE filepath

\* server.c:361-369: the path handed to open()
StaticFilePath(request_path) ==
    LET filepath == Take(DOCUMENT_ROOT \o request_path, 2 * MAX_PATH_SIZE - 1) IN
    IF Resolve(filepath).kind = "dir"
    THEN LET withSlash == IF Len(filepath) > 0 /\ filepath[Len(filepath)] # "/"
                          THEN Take(filepath \o <<"/">>, 2 * MAX_PATH_SIZE - 1)
                          ELSE filepath
         IN  Take(withSlash \o DEFAULT_INDEX, 2 * MAX_PATH_SIZE - 1)
    ELSE filepath

\* server.c:372-376: open() failed
ServeOpenFailed(res, realloc_ok) ==
    send_http_response(res, HTTP_NOT_FOUND, TextHtml, Page404, 23, realloc_ok)

\* server.c:378-391, 396-401: fstat, malloc or read failed
ServeFailed(res, realloc_ok) ==
    send_http_response(res, HTTP_INTERNAL_ERROR, TextHtml, Page500, 35, realloc_ok)

\* server.c:396-406: after read() and close(); fb holds st.st_size, the bytes
\* read into file_content and read's return value
ServeRead(res, path, fb, realloc_ok) ==
    IF fb.bytes_read # fb.size
    THEN ServeFailed(res, realloc_ok)
    ELSE send_http_response(res, HTTP_OK, get_mime_type(path), fb.data, fb.size,
                            realloc_ok)

(* ---------------------------------------------------------------------- *)
(* Route table and handlers (server.c:122-128, 409-437)                    *)
(* ---------------------------------------------------------------------- *)
HomeBody == <<"<", "h", "1", ">", "W", "e", "l", "c", "o", "m", "e", "!", "<", "/", "h", "1", ">", "<", "p", ">", "S", "i", "m", "p", "l", "e", " ", "C", " ", "H", "T", "T", "P", " ", "S", "e", "r", "v", "e", "r", "<", "/", "p", ">">>
AboutBody == <<"<", "h", "1", ">", "A", "b", "o", "u", "t", "<", "/", "h", "1", ">", "<", "p", ">", "M", "u", "l", "t", "i", "t", "h", "r", "e", "a", "d", "e", "d", " ", "C", " ", "S", "e", "r", "v", "e", "r", " ", "w", "i", "t", "h", " ", "S", "t", "a", "t", "i", "c", " ", "F", "i", "l", "e", "s", "<", "/", "p", ">">>
HealthBody == <<"{", "\"", "s", "t", "a", "t", "u", "s", "\"", ":", "\"", "h", "e", "a", "l", "t", "h", "y", "\"", ",", "\"", "t", "h", "r", "e", "a", "d", "s", "\"", ":", "\"", "e", "n", "a", "b", "l", "e", "d", "\"", "}">>

handle_home(res, realloc_ok) ==
    send_http_response(res, HTTP_OK, TextHtml, Literal(HomeBody),
                       strlen(Literal(HomeBody)), realloc_ok)
\* a handle_about that passes sizeof(body) for its length
handle_about_sizeof(res, realloc_ok) ==
    send_http_response(res, HTTP_OK, TextHtml, Literal(AboutBody),
                       Len(Literal(AboutBody)), realloc_ok)

handle_about(res, realloc_ok) ==
    send_http_response(res, HTTP_OK, TextHtml, Literal(AboutBody),
                       strlen(Literal(AboutBody)), realloc_ok)
handle_health(res, realloc_ok) ==
    send_http_response(res, HTTP_OK, <<"a", "p", "p", "l", "i", "c", "a", "t", "i", "o", "n", "/", "j", "s", "o", "n">>, Literal(HealthBody),
                       strlen(Literal(HealthBody)), realloc_ok)

routes == << [path |-> <<"/">>, handler |-> "handle_home"],
             [path |-> <<"/", "a", "b", "o", "u", "t">>, handler |-> "handle_about"],
             [path |-> <<"/", "h", "e", "a", "l", "t", "h">>, handler |-> "handle_health"] >>

RunHandler(handler, res, realloc_ok) ==
    CASE handler = "handle_home" -> handle_home(res, realloc_ok)
      [] handler = "handle_about" -> handle_about(res, realloc_ok)
      [] handler = "handle_health" -> handle_health(res, realloc_ok)

RECURSIVE RouteScan(_, _)
\* the index of the first route whose path is exactly path, 0 when none is
RouteScan(path, i) ==
    IF i > Len(routes) THEN 0
    ELSE IF path = routes[i].path THEN i
    ELSE RouteScan(path, i + 1)

\* handle_dynamic_route: [found, res]
handle_dynamic_route(path, res, realloc_ok) ==
    LET i == RouteScan(path, 1) IN
    IF i = 0 THEN [found |-> FALSE, res |-> res]
    ELSE [found |-> TRUE, res |-> RunHandler(routes[i].handler, res, realloc_ok)]

(* ---------------------------------------------------------------------- *)
(* Connection handler up to the first descriptor operation                 *)
(* (server.c:448-486 with serve_static_file's lines 355-369)               *)
(* ---------------------------------------------------------------------- *)
GET == <<"G", "E", "T">>

CStr(buf) == Take(buf, strlen(buf))

\* a method test that ignores case (strcasecmp for strcmp)
method_is_get_nocase(method) == strcasecmp_eq(method, GET)

\* server.c:467: strcmp(method, "GET") == 0
method_is_get(method) == method = GET

\* what handle_request does with the bytes it read once res is initialised:
\* next = "write" with the assembled response, or next = "open" with the
\* path serve_static_file is about to open.  fsops lists the filesystem
\* calls made so far.
Dispatch(buffer, res, realloc_ok) ==
    LET p == parse_request_line(CStr(buffer)) IN
    IF p.rc < 0
    THEN [next |-> "write", filepath |-> <<>>, fsops |-> <<>>,
          res |-> send_http_response(res, HTTP_BAD_REQUEST, TextHtml, Page400, 24,
                                     realloc_ok)]
    ELSE IF ~method_is_get(p.method)
    THEN [next |-> "write", filepath |-> <<>>, fsops |-> <<>>,
          res |-> send_http_response(res, HTTP_METHOD_NOT_ALLOWED, TextHtml, Page405,
                                     32, realloc_ok)]
    ELSE LET d == handle_dynamic_route(p.path, res, realloc_ok) IN
         IF d.found
         THEN [next |-> "write", filepath |-> <<>>, fsops |-> <<>>, res |-> d.res]
         ELSE IF ~is_safe_path(p.path)
         THEN [next |-> "write", filepath |-> <<>>, fsops |-> <<>>,
               res |-> send_http_response(res, HTTP_BAD_REQUEST, TextHtml, Page400, 24,
                                          realloc_ok)]
         ELSE [next |-> "open", filepath |-> StaticFilePath(p.path),
               fsops |-> <<"stat">>, res |-> res]

(* ---------------------------------------------------------------------- *)
(* What the peers send                                                     *)
(* ---------------------------------------------------------------------- *)
HTTP11 == <<"H", "T", "T", "P", "/", "1", ".", "1">>
LongMethod == [i \in 1..MAX_METHOD_SIZE |-> "A"]
LongUri == <<"/">> \o [i \in 1..(MAX_PATH_SIZE - 1) |-> "a"]

LongQuery == <<"/", "?">> \o [i \in 1..(MAX_PATH_SIZE - 2) |-> "a"]
DeepUri == <<"/">> \o DeepA \o <<"/">> \o DeepB

Methods == { GET, <<"P", "O", "S", "T">>, <<"g", "e", "t">>, Take(LongMethod, MAX_METHOD_SIZE - 1), LongMethod }

Uris == { <<"/">>, <<"/", "a", "b", "o", "u", "t">>, <<"/", "h", "e", "a", "l", "t", "h">>, <<"/", "a", "b", "o", "u", "t", "?", "x", "=", "1", "&", "y", "=", "t", "w", "o", "%", "2", "0", "w", "o", "r", "d", "s">>, <<"/", "?", "q", "=", ".", ".">>,
          <<"/", "i", "n", "d", "e", "x", ".", "h", "t", "m", "l">>, <<"/", "a", ".", "t", "x", "t">>, <<"/", "X", ".", "P", "N", "G">>, <<"/", "e", ".", "c", "s", "s">>, <<"/", "b", "i", "g", ".", "b", "i", "n">>,
          <<"/", "d">>, <<"/", "d", "/">>, <<"/", "d", "/", "i", "n", "d", "e", "x", ".", "h", "t", "m", "l">>, <<"/", "n">>, <<"/", "a", "b", "o", "u", "t", "/">>,
          <<"/", "n", "o", "p", "e">>, <<"/", ".", ".", "/", "e", "t", "c", "/", "p", "a", "s", "s", "w", "d">>, <<"/", "a", ".", ".", "t", "x", "t">>, <<"i", "n", "d", "e", "x", ".", "h", "t", "m", "l">>, <<>>,
          <<"/", "i", "n", "d", "e", "x", ".", "h", "t", "m", "l", "?", "x", "=", ".", ".">>, Take(LongUri, MAX_PATH_SIZE - 1), LongUri,
          Take(LongQuery, MAX_PATH_SIZE - 1), LongQuery,
          DeepUri, DeepUri \o <<"/", "i", "n", "d", "e", "x", ".", "h", "t", "m", "l">> }

\* what follows the request line: nothing, or a header line
Tails == { <<>>, <<"H", "o", "s", "t", ":", " ", "a", " ", "b">> \o CRLF }

\* "full": METHOD SP URI SP VERSION; "short": METHOD SP URI; "bare": METHOD
Forms == {"full", "short", "bare"}

AllRequests ==
    [form : {"full", "short"}, method : Methods, uri : Uris, tail : Tails]
    \cup [form : {"bare"}, method : Methods, uri : {<<>>}, tail : Tails]

\* with many connections, the c-th one asks for the c-th route of the table;
\* the second may ask for a file instead
FewUris == << <<"/">>, <<"/", "a", "b", "o", "u", "t">>, <<"/", "h", "e", "a", "l", "t", "h">> >>
FewFile == <<"/", "a", ".", "t", "x", "t">>
FewRequests(c) ==
    {[form |-> "full", method |-> GET, uri |-> u, tail |-> <<>>] :
        u \in {FewUris[((c - 1) % Len(FewUris)) + 1]} \cup (IF c = 2 THEN {FewFile} ELSE {})}

NoRequest == [form |-> "none", method |-> <<>>, uri |-> <<>>, tail |-> <<>>]

\* the request line of a request, without its CRLF
RequestLine(r) ==
    CASE r.form = "full" -> r.method \o SP \o r.uri \o SP \o HTTP11
      [] r.form = "short" -> r.method \o SP \o r.uri
      [] r.form = "bare" -> r.method

\* the bytes on the wire
Render(r) == RequestLine(r) \o CRLF \o r.tail \o CRLF

(* ---------------------------------------------------------------------- *)
(* State                                                                   *)
(* ---------------------------------------------------------------------- *)
VARIABLES
    mode,          \* "single": one connection, any request; "many": MaxConn connections;
                   \* "unit": one function called on its own
    unit,          \* the function called on its own, its arguments and its result
    keep_running,  \* server.c:50
    server_fd,     \* server.c:51
    apc,           \* where run_server/main is
    acc,           \* run_server's client_fd and the connection it belongs to
    signalled,     \* whether SIGINT/SIGTERM has been delivered
    log,           \* the faults reported with perror
    exit_status,   \* run_server's return value, -1 while it runs
    fdtab,         \* the process's descriptor table
    peer,          \* what each peer has done: "idle", "connected", "closed"
    sent,          \* the request each peer has sent, NoRequest when none
    tpc,           \* where each connection's handler thread is
    cfd,           \* client->client_fd of each handler thread
    res,           \* handle_request's res
    filepath,      \* serve_static_file's filepath
    ffd,           \* serve_static_file's fd
    fbuf,          \* serve_static_file's st.st_size, file_content and bytes_read
    out,           \* the byte strings each handler has written to its socket
    fsops,         \* the filesystem calls each handler has made
    oc             \* what the environment did to each handler's calls

vars == <<mode, unit, keep_running, server_fd, apc, acc, signalled, log, exit_status, fdtab, peer, sent,
          tpc, cfd, res, filepath, ffd, fbuf, out, fsops, oc>>

acceptorVars == <<keep_running, server_fd, apc, acc, signalled, log, exit_status>>
peerVars == <<peer, sent>>
fileVars == <<filepath, ffd, fbuf>>

Conns == 1..MaxConn
\* descriptors 0..2 are the standard streams; every connection needs at most two
FDs == 3..(3 + 2 * MaxConn)

Free == [kind |-> "free", owner |-> 0, obj |-> <<>>]
NoFile == [size |-> 0, data |-> <<>>, bytes_read |-> 0, alloc |-> FALSE]
NoOutcome == [init |-> "", open |-> "", file |-> "", grow |-> ""]
NoAcc == [conn |-> 0, fd |-> -1]

\* the connections of this run
Live == IF mode = "single" THEN {1} ELSE Conns
Menu(c) == IF mode = "single" THEN AllRequests ELSE FewRequests(c)

\* what a file or allocation call of a handler may do: in the runs with one
\* connection every failure is followed, in the runs with many only the
\* failure of response_init
Faults == IF mode = "single" THEN BOOLEAN ELSE {TRUE}
FstatOutcomes == IF mode = "single" THEN {"fstat", "malloc", "ok"} ELSE {"ok"}
\* the errno of an accept that fails on the listening socket: interrupted, or
\* (followed in the runs with one connection) a fault that is reported
TransientErrnos == IF mode = "single" THEN {"EINTR", "ECONNABORTED"} ELSE {"EINTR"}

\* open(), socket() and accept() return the lowest free descriptor
LowestFree(tab) == CHOOSE f \in FDs : tab[f].kind = "free" /\ \A g \in FDs : g < f => tab[g].kind # "free"

\* close(fd): whatever the number names now is released; EBADF changes nothing
Close(tab, fd) == IF fd \in FDs THEN [tab EXCEPT ![fd] = Free] ELSE tab

NoCall == [fn |-> "none"]

BaseInit ==
    /\ unit = NoCall
    /\ keep_running = 1
    /\ server_fd = -1
    /\ apc = "socket"
    /\ acc = NoAcc
    /\ signalled = FALSE
    /\ log = {}
    /\ exit_status = -1
    /\ fdtab = [f \in FDs |-> Free]
    /\ peer = [c \in Conns |-> "idle"]
    /\ sent = [c \in Conns |-> NoRequest]
    /\ tpc = [c \in Conns |-> "unborn"]
    /\ cfd = [c \in Conns |-> -1]
    /\ res = [c \in Conns |-> NoResponse]
    /\ filepath = [c \in Conns |-> <<>>]
    /\ ffd = [c \in Conns |-> -1]
    /\ fbuf = [c \in Conns |-> NoFile]
    /\ out = [c \in Conns |-> <<>>]
    /\ fsops = [c \in Conns |-> <<>>]
    /\ oc = [c \in Conns |-> NoOutcome]

Init == mode = "single" /\ BaseInit
InitMany == mode = "many" /\ BaseInit
InitUnit == mode = "unit" /\ BaseInit

(* ---------------------------------------------------------------------- *)
(* Shutdown signal (server.c:130-137), run in the main thread.  The model  *)
(* follows the first delivery.                                             *)
(* ---------------------------------------------------------------------- *)
signal_handler ==
    /\ ~signalled
    /\ apc # "exited"
    /\ signalled' = TRUE
    /\ keep_running' = 0
    /\ fdtab' = IF server_fd # -1 THEN Close(fdtab, server_fd) ELSE fdtab
    /\ UNCHANGED <<mode, unit, server_fd, apc, acc, log, exit_status, peerVars, tpc, cfd, res,
                   fileVars, out, fsops, oc>>

(* ---------------------------------------------------------------------- *)
(* Acceptor: run_server (server.c:505-590) and main's return               *)
(* ---------------------------------------------------------------------- *)
EXIT_SUCCESS == 0
EXIT_FAILURE == 1

\* server.c:513-517
socket_step ==
    /\ apc = "socket"
    /\ \E ok \in BOOLEAN :
         IF ok
         THEN LET fd == LowestFree(fdtab) IN
              /\ server_fd' = fd
              /\ fdtab' = [fdtab EXCEPT ![fd] = [kind |-> "sock", owner |-> 0, obj |-> <<>>]]
              /\ apc' = "setup"
              /\ UNCHANGED <<log, exit_status>>
         ELSE /\ log' = log \cup {"socket"}
              /\ exit_status' = EXIT_FAILURE
              /\ apc' = "failed"
              /\ UNCHANGED <<server_fd, fdtab>>
    /\ UNCHANGED <<mode, unit, keep_running, acc, signalled, peerVars, tpc, cfd, res,
                   fileVars, out, fsops, oc>>

\* server.c:519-540: setsockopt, bind, listen.  Each can fail for a reason of
\* its own, and each fails (EBADF) on a descriptor the signal handler has
\* closed; every failure is reported, closes server_fd and returns
setup_step ==
    /\ apc = "setup"
    /\ \E ok \in BOOLEAN :
         IF fdtab[server_fd].kind = "sock" /\ ok
         THEN /\ fdtab' = [fdtab EXCEPT ![server_fd].kind = "listen"]
              /\ apc' = "loop"
              /\ UNCHANGED <<log, exit_status>>
         ELSE /\ log' = log \cup {IF fdtab[server_fd].kind = "sock" THEN "setup"
                                   ELSE "setup on a closed descriptor"}
              /\ fdtab' = Close(fdtab, server_fd)
              /\ exit_status' = EXIT_FAILURE
              /\ apc' = "failed"
    /\ UNCHANGED <<mode, unit, keep_running, server_fd, acc, signalled, peerVars, tpc,
                   cfd, res, fileVars, out, fsops, oc>>

\* server.c:546
loop_test ==
    /\ apc = "loop"
    /\ apc' = IF keep_running # 0 THEN "accept" ELSE "shutdown"
    /\ UNCHANGED <<mode, unit, keep_running, server_fd, acc, signalled, log, exit_status,
                   fdtab, peerVars, tpc, cfd, res, fileVars, out, fsops, oc>>

\* connections that have reached the listen queue and are not yet accepted
Pending == {c \in Live : peer[c] # "idle" /\ tpc[c] = "unborn"}

\* an acceptor that takes the next connection only when no handler is running
\* (the handler joined, or run inline)
accept_ok_joined ==
    /\ apc = "accept"
    /\ fdtab[server_fd].kind = "listen"
    /\ Pending # {}
    /\ \A d \in Conns : tpc[d] \notin {"read", "open", "fstat", "fread", "fclose",
                                        "write", "close"}
    /\ LET c == MinOf(Pending)
           fd == LowestFree(fdtab)
       IN  /\ fdtab' = [fdtab EXCEPT ![fd] = [kind |-> "client", owner |-> c, obj |-> <<>>]]
           /\ acc' = [conn |-> c, fd |-> fd]
           /\ tpc' = [tpc EXCEPT ![c] = "accepted"]
    /\ apc' = "spawn"
    /\ UNCHANGED <<mode, unit, keep_running, server_fd, signalled, log, exit_status, peerVars,
                   cfd, res, fileVars, out, fsops, oc>>

\* server.c:550, 563: accept returns the connection at the head of the queue
\* (it blocks while the queue is empty)
accept_ok ==
    /\ apc = "accept"
    /\ fdtab[server_fd].kind = "listen"
    /\ Pending # {}
    /\ LET c == MinOf(Pending)
           fd == LowestFree(fdtab)
       IN  /\ fdtab' = [fdtab EXCEPT ![fd] = [kind |-> "client", owner |-> c, obj |-> <<>>]]
           /\ acc' = [conn |-> c, fd |-> fd]
           /\ tpc' = [tpc EXCEPT ![c] = "accepted"]
    /\ apc' = "spawn"
    /\ UNCHANGED <<mode, unit, keep_running, server_fd, signalled, log, exit_status, peerVars,
                   cfd, res, fileVars, out, fsops, oc>>

\* an accept failure handled without looking at keep_running
AcceptFailed_reported(errno) ==
    /\ apc' = "loop"
    /\ log' = IF errno # "EINTR" THEN log \cup {"accept"} ELSE log
    /\ UNCHANGED <<mode, unit, keep_running, server_fd, acc, signalled, exit_status, fdtab,
                   peerVars, tpc, cfd, res, fileVars, out, fsops, oc>>

\* server.c:552-561, errno being what accept left there
AcceptFailed(errno) ==
    /\ apc' = IF keep_running = 0 THEN "shutdown" ELSE "loop"
    /\ log' = IF keep_running # 0 /\ errno # "EINTR" THEN log \cup {"accept"} ELSE log
    /\ UNCHANGED <<mode, unit, keep_running, server_fd, acc, signalled, exit_status, fdtab,
                   peerVars, tpc, cfd, res, fileVars, out, fsops, oc>>

\* accept on a descriptor that is no listening socket, because the signal
\* handler closed it (and it may have been reused since), fails at once; so
\* does an accept the signal interrupts
accept_closed ==
    /\ apc = "accept"
    /\ fdtab[server_fd].kind # "listen"
    /\ \E errno \in {"EINTR", "EBADF"} : AcceptFailed(errno)

\* accept on the listening socket fails transiently
accept_transient ==
    /\ apc = "accept"
    /\ fdtab[server_fd].kind = "listen"
    /\ \E errno \in TransientErrnos : AcceptFailed(errno)

\* a spawn step that gives up the accept loop when malloc or pthread_create fails
spawn_step_stop ==
    /\ apc = "spawn"
    /\ \E outcome \in {"ok", "nomem", "nothread"} :
         /\ IF outcome = "ok"
            THEN /\ tpc' = [tpc EXCEPT ![acc.conn] = "read"]
                 /\ cfd' = [cfd EXCEPT ![acc.conn] = acc.fd]
                 /\ UNCHANGED fdtab
            ELSE /\ fdtab' = Close(fdtab, acc.fd)
                 /\ tpc' = [tpc EXCEPT ![acc.conn] = "dropped"]
                 /\ UNCHANGED cfd
         /\ log' = IF outcome = "nothread" THEN log \cup {"pthread_create"} ELSE log
    /\ apc' = IF tpc'[acc.conn] = "dropped" THEN "shutdown" ELSE "loop"
    /\ acc' = NoAcc
    /\ UNCHANGED <<mode, unit, keep_running, server_fd, signalled, exit_status, peerVars, res,
                   fileVars, out, fsops, oc>>

\* server.c:563-583: malloc of the client record and pthread_create
spawn_step ==
    /\ apc = "spawn"
    /\ \E outcome \in {"ok", "nomem", "nothread"} :
         /\ IF outcome = "ok"
            THEN /\ tpc' = [tpc EXCEPT ![acc.conn] = "read"]
                 /\ cfd' = [cfd EXCEPT ![acc.conn] = acc.fd]
                 /\ UNCHANGED fdtab
            ELSE /\ fdtab' = Close(fdtab, acc.fd)
                 /\ tpc' = [tpc EXCEPT ![acc.conn] = "dropped"]
                 /\ UNCHANGED cfd
         /\ log' = IF outcome = "nothread" THEN log \cup {"pthread_create"} ELSE log
    /\ apc' = "loop"
    /\ acc' = NoAcc
    /\ UNCHANGED <<mode, unit, keep_running, server_fd, signalled, exit_status, peerVars, res,
                   fileVars, out, fsops, oc>>

\* server.c:586-589
shutdown_step ==
    /\ apc = "shutdown"
    /\ fdtab' = Close(fdtab, server_fd)
    /\ exit_status' = EXIT_SUCCESS
    /\ apc' = "stopped"
    /\ UNCHANGED <<mode, unit, keep_running, server_fd, acc, signalled, log, peerVars, tpc,
                   cfd, res, fileVars, out, fsops, oc>>

Running(c) == tpc[c] \in {"read", "open", "fstat", "fread", "fclose", "write", "close"}

\* server.c:603: main returns run_server's status, which ends the process and
\* every thread in it
main_return ==
    /\ apc \in {"stopped", "failed"}
    /\ apc' = "exited"
    /\ tpc' = [c \in Conns |-> IF Running(c) THEN "killed" ELSE tpc[c]]
    /\ fdtab' = [f \in FDs |-> Free]
    /\ UNCHANGED <<mode, unit, keep_running, server_fd, acc, signalled, log, exit_status,
                   peerVars, cfd, res, fileVars, out, fsops, oc>>

(* ---------------------------------------------------------------------- *)
(* Peers                                                                   *)
(* ---------------------------------------------------------------------- *)
\* a peer connects once the socket listens; connections are numbered in the
\* order in which they reach the listen queue
peer_connect(c) ==
    /\ c \in Live
    /\ peer[c] = "idle"
    /\ IF c = 1 THEN TRUE ELSE peer[c - 1] # "idle"
    /\ server_fd # -1 /\ fdtab[server_fd].kind = "listen"
    /\ peer' = [peer EXCEPT ![c] = "connected"]
    /\ UNCHANGED <<mode, unit, acceptorVars, fdtab, sent, tpc, cfd, res, fileVars, out, fsops,
                   oc>>

\* the bytes a peer sends wait in the socket until the handler reads them, so
\* the model lets the peer act once its handler is in read()
peer_send(c) ==
    /\ peer[c] = "connected"
    /\ sent[c] = NoRequest
    /\ tpc[c] = "read"
    /\ \E r \in Menu(c) : sent' = [sent EXCEPT ![c] = r]
    /\ UNCHANGED <<mode, unit, acceptorVars, fdtab, peer, tpc, cfd, res, fileVars, out, fsops,
                   oc>>

\* the peer closes, or its connection breaks, before it has sent anything
peer_close(c) ==
    /\ peer[c] = "connected"
    /\ sent[c] = NoRequest
    /\ tpc[c] = "read"
    /\ peer' = [peer EXCEPT ![c] = "closed"]
    /\ UNCHANGED <<mode, unit, acceptorVars, fdtab, sent, tpc, cfd, res, fileVars, out, fsops,
                   oc>>

(* ---------------------------------------------------------------------- *)
(* Connection handler thread: client_thread and handle_request             *)
(* (server.c:440-502), one step per descriptor operation                   *)
(* ---------------------------------------------------------------------- *)
OwnsClient(c) == cfd[c] \in FDs /\ fdtab[cfd[c]].kind = "client" /\ fdtab[cfd[c]].owner = c

\* whether realloc was called at all, and what it did
Grew(c, withRealloc, without, realloc_ok) ==
    IF withRealloc = without THEN oc[c].grow
    ELSE IF realloc_ok THEN "ok" ELSE "fail"

\* server.c:442-486: read, response_init, parse and dispatch, up to the first
\* descriptor operation of serve_static_file
read_step(c) ==
    /\ tpc[c] = "read"
    /\ IF ~OwnsClient(c)
       THEN /\ tpc' = [tpc EXCEPT ![c] = "close"]
            /\ UNCHANGED <<res, filepath, fsops, oc>>
       ELSE IF sent[c] # NoRequest
       THEN \E init_ok \in BOOLEAN, realloc_ok \in Faults :
              LET buffer == Take(Render(sent[c]), BUFFER_SIZE - 1) \o <<NUL>>
                  r0 == response_init(BUFFER_SIZE, init_ok)
                  d == Dispatch(buffer, r0, realloc_ok)
              IN  IF ~init_ok
                  THEN /\ tpc' = [tpc EXCEPT ![c] = "close"]
                       /\ oc' = [oc EXCEPT ![c].init = "fail"]
                       /\ UNCHANGED <<res, filepath, fsops>>
                  ELSE /\ tpc' = [tpc EXCEPT ![c] = d.next]
                       /\ res' = [res EXCEPT ![c] = d.res]
                       /\ filepath' = [filepath EXCEPT ![c] = d.filepath]
                       /\ fsops' = [fsops EXCEPT ![c] = d.fsops]
                       /\ oc' = [oc EXCEPT ![c].init = "ok",
                                           ![c].grow = Grew(c, Dispatch(buffer, r0, TRUE),
                                                            Dispatch(buffer, r0, FALSE),
                                                            realloc_ok)]
       ELSE /\ peer[c] = "closed"
            /\ tpc' = [tpc EXCEPT ![c] = "close"]
            /\ UNCHANGED <<res, filepath, fsops, oc>>
    /\ UNCHANGED <<mode, unit, acceptorVars, fdtab, peerVars, cfd, ffd, fbuf, out>>

\* server.c:371-376
open_step(c) ==
    /\ tpc[c] = "open"
    /\ \E ok, realloc_ok \in Faults :
         IF ok /\ Resolve(filepath[c]).kind # "none"
         THEN LET fd == LowestFree(fdtab) IN
              /\ fdtab' = [fdtab EXCEPT ![fd] = [kind |-> "file", owner |-> c,
                                                 obj |-> filepath[c]]]
              /\ ffd' = [ffd EXCEPT ![c] = fd]
              /\ tpc' = [tpc EXCEPT ![c] = "fstat"]
              /\ oc' = [oc EXCEPT ![c].open = "ok"]
              /\ UNCHANGED res
         ELSE /\ res' = [res EXCEPT ![c] = ServeOpenFailed(res[c], realloc_ok)]
              /\ tpc' = [tpc EXCEPT ![c] = "write"]
              /\ oc' = [oc EXCEPT ![c].open = IF Resolve(filepath[c]).kind = "none"
                                             THEN "absent" ELSE "fail",
                                  ![c].grow = Grew(c, ServeOpenFailed(res[c], TRUE),
                                                   ServeOpenFailed(res[c], FALSE),
                                                   realloc_ok)]
              /\ UNCHANGED <<fdtab, ffd>>
    /\ fsops' = [fsops EXCEPT ![c] = Append(fsops[c], "open")]
    /\ UNCHANGED <<mode, unit, acceptorVars, peerVars, cfd, filepath, fbuf, out>>

\* the bytes of the object a descriptor names
ObjContent(entry) ==
    IF entry.kind = "file" /\ Resolve(entry.obj).kind = "file"
    THEN Resolve(entry.obj).content
    ELSE <<>>

\* an fstat and malloc step whose failure paths forget close(fd)
fstat_step_leak(c) ==
    /\ tpc[c] = "fstat"
    /\ \E outcome \in IF fdtab[ffd[c]].kind = "free" THEN {"fstat"} ELSE FstatOutcomes,
          realloc_ok \in Faults :
         /\ IF outcome = "ok"
            THEN /\ fbuf' = [fbuf EXCEPT ![c] =
                               [size |-> Len(ObjContent(fdtab[ffd[c]])), data |-> <<>>,
                                bytes_read |-> 0, alloc |-> TRUE]]
                 /\ tpc' = [tpc EXCEPT ![c] = "fread"]
                 /\ UNCHANGED <<fdtab, res, oc>>
            ELSE /\ UNCHANGED fdtab
                 /\ res' = [res EXCEPT ![c] = ServeFailed(res[c], realloc_ok)]
                 /\ tpc' = [tpc EXCEPT ![c] = "write"]
                 /\ oc' = [oc EXCEPT ![c].file = outcome,
                                     ![c].grow = Grew(c, ServeFailed(res[c], TRUE),
                                                      ServeFailed(res[c], FALSE),
                                                      realloc_ok)]
                 /\ UNCHANGED fbuf
    /\ fsops' = [fsops EXCEPT ![c] = Append(fsops[c], "fstat")]
    /\ UNCHANGED <<mode, unit, acceptorVars, peerVars, cfd, filepath, ffd, out>>

\* server.c:378-391: fstat and malloc; a failure closes fd and answers 500
fstat_step(c) ==
    /\ tpc[c] = "fstat"
    /\ \E outcome \in IF fdtab[ffd[c]].kind = "free" THEN {"fstat"} ELSE FstatOutcomes,
          realloc_ok \in Faults :
         /\ IF outcome = "ok"
            THEN /\ fbuf' = [fbuf EXCEPT ![c] =
                               [size |-> Len(ObjContent(fdtab[ffd[c]])), data |-> <<>>,
                                bytes_read |-> 0, alloc |-> TRUE]]
                 /\ tpc' = [tpc EXCEPT ![c] = "fread"]
                 /\ UNCHANGED <<fdtab, res, oc>>
            ELSE /\ fdtab' = Close(fdtab, ffd[c])
                 /\ res' = [res EXCEPT ![c] = ServeFailed(res[c], realloc_ok)]
                 /\ tpc' = [tpc EXCEPT ![c] = "write"]
                 /\ oc' = [oc EXCEPT ![c].file = outcome,
                                     ![c].grow = Grew(c, ServeFailed(res[c], TRUE),
                                                      ServeFailed(res[c], FALSE),
                                                      realloc_ok)]
                 /\ UNCHANGED fbuf
    /\ fsops' = [fsops EXCEPT ![c] = Append(fsops[c], "fstat")]
    /\ UNCHANGED <<mode, unit, acceptorVars, peerVars, cfd, filepath, ffd, out>>

\* server.c:393: read() of st.st_size bytes: all of them, or a failure (-1)
\* when the descriptor is closed or no regular file, or the device fails
fread_step(c) ==
    /\ tpc[c] = "fread"
    /\ \E io_ok \in Faults :
         LET entry == fdtab[ffd[c]]
             readable == entry.kind = "file" /\ Resolve(entry.obj).kind = "file"
         IN  fbuf' = [fbuf EXCEPT ![c] =
                 IF io_ok /\ readable
                 THEN [fbuf[c] EXCEPT
                          !.data = Take(ObjContent(entry), fbuf[c].size),
                          !.bytes_read = Len(Take(ObjContent(entry), fbuf[c].size))]
                 ELSE [fbuf[c] EXCEPT !.bytes_read = -1]]
    /\ tpc' = [tpc EXCEPT ![c] = "fclose"]
    /\ fsops' = [fsops EXCEPT ![c] = Append(fsops[c], "read")]
    /\ UNCHANGED <<mode, unit, acceptorVars, fdtab, peerVars, cfd, res, filepath, ffd, out, oc>>

\* server.c:394-406: close(fd), then the 500 or the 200 response; file_content
\* is freed on both paths
fclose_step(c) ==
    /\ tpc[c] = "fclose"
    /\ fdtab' = Close(fdtab, ffd[c])
    /\ \E realloc_ok \in Faults :
         /\ res' = [res EXCEPT ![c] = ServeRead(res[c], filepath[c], fbuf[c], realloc_ok)]
         /\ oc' = [oc EXCEPT ![c].file = IF fbuf[c].bytes_read # fbuf[c].size
                                         THEN "short" ELSE "ok",
                             ![c].grow = Grew(c, ServeRead(res[c], filepath[c], fbuf[c], TRUE),
                                              ServeRead(res[c], filepath[c], fbuf[c], FALSE),
                                              realloc_ok)]
    /\ fbuf' = [fbuf EXCEPT ![c] = NoFile]
    /\ tpc' = [tpc EXCEPT ![c] = "write"]
    /\ UNCHANGED <<mode, unit, acceptorVars, peerVars, cfd, filepath, ffd, out, fsops>>

\* a handler whose response buffer is one static object shared by the threads:
\* it writes what the earliest handler still holding a buffer has assembled
write_step_shared(c) ==
    /\ tpc[c] = "write"
    /\ LET d == MinOf({e \in Conns : res[e].alloc}) IN
       out' = [out EXCEPT ![c] = IF OwnsClient(c)
                                 THEN Append(@, Take(res[d].data, res[d].size))
                                 ELSE @]
    /\ res' = [res EXCEPT ![c] = response_free(res[c])]
    /\ tpc' = [tpc EXCEPT ![c] = "close"]
    /\ UNCHANGED <<mode, unit, acceptorVars, fdtab, peerVars, cfd, fileVars, fsops, oc>>

\* server.c:462-463, 470-471, 488-489: write and response_free
write_step(c) ==
    /\ tpc[c] = "write"
    /\ out' = [out EXCEPT ![c] = IF OwnsClient(c)
                                 THEN Append(@, Take(res[c].data, res[c].size))
                                 ELSE @]
    /\ res' = [res EXCEPT ![c] = response_free(res[c])]
    /\ tpc' = [tpc EXCEPT ![c] = "close"]
    /\ UNCHANGED <<mode, unit, acceptorVars, fdtab, peerVars, cfd, fileVars, fsops, oc>>

\* server.c:498-501: close(client->client_fd), free(client), thread ends
close_step(c) ==
    /\ tpc[c] = "close"
    /\ fdtab' = Close(fdtab, cfd[c])
    /\ tpc' = [tpc EXCEPT ![c] = "done"]
    /\ UNCHANGED <<mode, unit, acceptorVars, peerVars, cfd, res, fileVars, out, fsops, oc>>

Acceptor ==
    \/ socket_step
    \/ setup_step
    \/ loop_test
    \/ accept_ok
    \/ accept_closed
    \/ accept_transient
    \/ spawn_step
    \/ shutdown_step
    \/ main_return

Handler(c) ==
    \/ read_step(c)
    \/ open_step(c)
    \/ fstat_step(c)
    \/ fread_step(c)
    \/ fclose_step(c)
    \/ write_step(c)
    \/ close_step(c)

Peer(c) == peer_connect(c) \/ peer_send(c) \/ peer_close(c)

Next ==
    \/ signal_handler
    \/ Acceptor
    \/ \E c \in Conns : Handler(c)
    \/ \E c \in Conns : Peer(c)

Spec == Init /\ [][Next]_vars
SpecMany == InitMany /\ [][Next]_vars

(* ---------------------------------------------------------------------- *)
(* The functions called on their own, on arguments drawn from small sets   *)
(* ---------------------------------------------------------------------- *)
programVars == <<mode, keep_running, server_fd, apc, acc, signalled, log, exit_status, fdtab,
                 peer, sent, tpc, cfd, res, filepath, ffd, fbuf, out, fsops, oc>>

\* s1 & s2 & ... & sn
RECURSIVE JoinAmp(_)
JoinAmp(segs) ==
    IF Len(segs) = 0 THEN <<>>
    ELSE IF Len(segs) = 1 THEN segs[1]
    ELSE segs[1] \o <<"&">> \o JoinAmp(Tail(segs))

\* the segments a query string is put together from
Segments == { <<"x", "=", "1">>, <<"y", "=", "t", "w", "o", "%", "2", "0", "w", "o", "r", "d", "s">>, <<"f", "l", "a", "g">>, <<"=", "v">>, <<"k", "=">>, <<"a", "=", "b", "=", "c">>, <<"p", "=", "%", "+", "1">>, <<>> }
MaxSegs == 3
\* k=N for N in 1..n, and a value of 300 bytes
Numbered(n) == [i \in 1..n |-> <<"k", "=">> \o Decimal(i)]
LongValue == <<"v", "=">> \o [i \in 1..300 |-> "a"]
SegmentLists ==
    UNION {[1..n -> Segments] : n \in 0..MaxSegs}
    \cup {Numbered(MAX_QUERY_PARAMS - 1), Numbered(MAX_QUERY_PARAMS),
          Numbered(MAX_QUERY_PARAMS + 1),
          <<<<"f", "l", "a", "g">>>> \o Numbered(MAX_QUERY_PARAMS + 1),
          SubSeq(Numbered(MAX_QUERY_PARAMS + 1), 1, 20) \o <<<<"f", "l", "a", "g">>, <<>> >>
              \o SubSeq(Numbered(MAX_QUERY_PARAMS + 1), 21, MAX_QUERY_PARAMS + 1),
          <<LongValue, <<"x", "=", "1">>>>}

\* server.c:449-476: what handle_request gets from parse_query_string for a
\* request GET uri HTTP/1.1
QueryParams(uri) ==
    LET buffer == GET \o SP \o uri \o SP \o HTTP11 \o CRLF \o CRLF
        parsed == parse_request_line(buffer)
    IN  IF parsed.rc # 0 THEN <<>> ELSE parse_query_string(parsed.query_string)

query_call ==
    /\ mode = "unit"
    /\ unit = NoCall
    /\ \E segs \in SegmentLists :
         unit' = [fn |-> "parse_query_string", segs |-> segs,
                  uri |-> <<"/", "a", "b", "o", "u", "t", "?">> \o JoinAmp(segs),
                  params |-> QueryParams(<<"/", "a", "b", "o", "u", "t", "?">> \o JoinAmp(segs))]
    /\ UNCHANGED programVars

\* the lengths of the data appended and of the texts formatted
AppendLens == {0, 1, BUFFER_SIZE - 1, 2 * BUFFER_SIZE + 1}
PrintfLens == {5, BUFFER_SIZE - 1, BUFFER_SIZE}
MaxCalls == 3
Filled(len, calls) == [i \in 1..len |-> LowerCase[calls + 1]]

\* response_init(&res, BUFFER_SIZE), as handle_request calls it (server.c:455)
buffer_init ==
    /\ mode = "unit"
    /\ unit = NoCall
    /\ \E malloc_ok \in BOOLEAN :
         unit' = [fn |-> "response", op |-> "response_init", len |-> 0,
                  rc |-> IF malloc_ok THEN 0 ELSE -1, calls |-> 0,
                  before |-> NoResponse, res |-> response_init(BUFFER_SIZE, malloc_ok)]
    /\ UNCHANGED programVars

\* one more call on the buffer: which one, its result and the buffer before it
buffer_called(op, len, r) ==
    unit' = [fn |-> "response", op |-> op, len |-> len, rc |-> r.rc,
             calls |-> unit.calls + 1, before |-> unit.res, res |-> r.res]

buffer_append ==
    /\ mode = "unit"
    /\ unit.fn = "response" /\ unit.res.alloc /\ unit.calls < MaxCalls
    /\ \E len \in AppendLens, realloc_ok \in BOOLEAN :
         buffer_called("response_append", len,
                       response_append(unit.res, Filled(len, unit.calls), len, realloc_ok))
    /\ UNCHANGED programVars

buffer_printf ==
    /\ mode = "unit"
    /\ unit.fn = "response" /\ unit.res.alloc /\ unit.calls < MaxCalls
    /\ \E len \in PrintfLens, realloc_ok \in BOOLEAN :
         buffer_called("response_printf", len,
                       response_printf(unit.res, Filled(len, unit.calls), realloc_ok))
    /\ UNCHANGED programVars

\* the bytes the strings to decode are made of, and the sizes of dst
DecodeBytes == {"%", "4", "f", "G", "+", "-", " "}
DstSizes == {1, 3, MAX_PARAM_SIZE}
MaxSrc == 4

\* url_decode(src, dst, dst_size) on its own
decode_call ==
    /\ mode = "unit"
    /\ unit = NoCall
    /\ \E n \in 0..MaxSrc : \E src \in [1..n -> DecodeBytes], dst_size \in DstSizes :
         unit' = [fn |-> "url_decode", src |-> src, dst_size |-> dst_size,
                  dst |-> url_decode(src, dst_size)]
    /\ UNCHANGED programVars

NextUnit ==
    \/ query_call
    \/ decode_call
    \/ buffer_init
    \/ buffer_append
    \/ buffer_printf

SpecUnit == InitUnit /\ [][NextUnit]_vars

\* the handler thread of c can take a step: it is running and not blocked in
\* read() on a silent peer (HandlerReady(c) is ENABLED <<Handler(c)>>_vars)
HandlerReady(c) ==
    /\ Running(c)
    /\ tpc[c] = "read" /\ OwnsClient(c) => sent[c] # NoRequest \/ peer[c] = "closed"

\* Scheduling: the main thread and every handler thread keep running; a call
\* that can return does return; an accept on the listening socket with a
\* connection queued fails transiently only finitely often.  Nothing is
\* assumed of the peers or of the signal.  The last conjunct is
\* WF_vars(Handler(c)) written with HandlerReady(c).
Fairness ==
    /\ WF_vars(socket_step)
    /\ WF_vars(setup_step)
    /\ WF_vars(loop_test)
    /\ SF_vars(accept_ok)
    /\ WF_vars(accept_closed)
    /\ WF_vars(spawn_step)
    /\ WF_vars(shutdown_step)
    /\ WF_vars(main_return)
    /\ \A c \in Conns : []<>(~HandlerReady(c)) \/ []<><<Handler(c)>>_vars

FairSingle == Spec /\ Fairness
FairMany == SpecMany /\ Fairness

(* ---------------------------------------------------------------------- *)
(* Reading a response off the wire                                         *)
(* ---------------------------------------------------------------------- *)
\* index of the blank line's first byte, 0 when the header block never ends
HeadEnd(resp) == strstr(resp, CRLF \o CRLF)
Body(resp) == Drop(resp, HeadEnd(resp) + 3)

RECURSIVE Lines(_)
\* the CRLF-terminated lines of a byte string
Lines(h) ==
    IF h = <<>> THEN <<>>
    ELSE LET i == strstr(h, CRLF) IN
         IF i = 0 THEN <<h>> ELSE <<Take(h, i - 1)>> \o Lines(Drop(h, i + 1))

HeadLines(resp) == Lines(Take(resp, HeadEnd(resp) + 1))

IsNat(ds) == Len(ds) > 0 /\ \A i \in 1..Len(ds) : strchr(DigitChar, ds[i]) # 0

RECURSIVE ParseNat(_)
ParseNat(ds) ==
    IF ds = <<>> THEN 0
    ELSE 10 * ParseNat(Take(ds, Len(ds) - 1)) + (strchr(DigitChar, ds[Len(ds)]) - 1)

HasPrefix(s, p) == Len(s) >= Len(p) /\ Take(s, Len(p)) = p

StatusPrefix == <<"H", "T", "T", "P", "/", "1", ".", "1", " ">>
TypePrefix == <<"C", "o", "n", "t", "e", "n", "t", "-", "T", "y", "p", "e", ":", " ">>
LengthPrefix == <<"C", "o", "n", "t", "e", "n", "t", "-", "L", "e", "n", "g", "t", "h", ":", " ">>

\* status line, Content-Type, Content-Length, Connection: close, blank line,
\* and a body of exactly Content-Length bytes
WellFormed(resp) ==
    /\ HeadEnd(resp) # 0
    /\ LET ls == HeadLines(resp) IN
       /\ Len(ls) = 4
       /\ HasPrefix(ls[1], StatusPrefix)
       /\ Len(ls[1]) > Len(StatusPrefix) + 4
       /\ IsNat(SubSeq(ls[1], Len(StatusPrefix) + 1, Len(StatusPrefix) + 3))
       /\ ls[1][Len(StatusPrefix) + 4] = " "
       /\ HasPrefix(ls[2], TypePrefix)
       /\ HasPrefix(ls[3], LengthPrefix)
       /\ IsNat(Drop(ls[3], Len(LengthPrefix)))
       /\ ls[4] = <<"C", "o", "n", "n", "e", "c", "t", "i", "o", "n", ":", " ", "c", "l", "o", "s", "e">>
       /\ ParseNat(Drop(ls[3], Len(LengthPrefix))) = Len(Body(resp))

StatusCode(resp) ==
    ParseNat(SubSeq(HeadLines(resp)[1], Len(StatusPrefix) + 1, Len(StatusPrefix) + 3))
ContentType(resp) == Drop(HeadLines(resp)[2], Len(TypePrefix))
ContentLength(resp) == ParseNat(Drop(HeadLines(resp)[3], Len(LengthPrefix)))

(* ---------------------------------------------------------------------- *)
(* Vocabulary of the properties                                            *)
(* ---------------------------------------------------------------------- *)
\* the handler's read returned a positive count
GotRequest(c) == oc[c].init # ""
\* handle_request has assembled or written its answer
Answered(c) == oc[c].init = "ok" /\ tpc[c] \in {"write", "close", "done"}
\* the handler has returned and its thread has ended
Finished(c) == tpc[c] = "done"
InFileStage(c) == tpc[c] \in {"open", "fstat", "fread", "fclose"}
ClientOpen(c) == \E f \in FDs : fdtab[f].kind = "client" /\ fdtab[f].owner = c
FileOpen(c) == \E f \in FDs : fdtab[f].kind = "file" /\ fdtab[f].owner = c

\* the request target up to the first "?"
PathOf(uri) == LET q == strchr(uri, "?") IN IF q = 0 THEN uri ELSE Take(uri, q - 1)
\* a request line METHOD SP URI SP VERSION with method GET
IsGet(r) == r.form = "full" /\ r.method = GET
HasDotDot(p) == \E i \in 1..(Len(p) - 1) : p[i] = "." /\ p[i + 1] = "."
UnsafePath(p) == HasDotDot(p) \/ p = <<>> \/ p[1] # "/"
RoutePaths == { <<"/">>, <<"/", "a", "b", "o", "u", "t">>, <<"/", "h", "e", "a", "l", "t", "h">> }

\* the response the handler hands to write(), once it has one
TheResponse(c) == IF tpc[c] = "write" THEN res[c].data ELSE out[c][1]

(* ---------------------------------------------------------------------- *)
(* C1                                                                     *)
(* ---------------------------------------------------------------------- *)
\* C1: every connection whose read returned a positive count has, when its
\* handler has finished, received exactly one complete HTTP response (status
\* line, Content-Type, Content-Length, Connection: close, blank line, body of
\* the announced length); a connection whose read returned a non-positive
\* count has received nothing.
C1_OneCompleteResponse ==
    \A c \in Conns :
        Finished(c) =>
            IF GotRequest(c)
            THEN Len(out[c]) = 1 /\ WellFormed(out[c][1])
            ELSE out[c] = <<>>

(* ---------------------------------------------------------------------- *)
(* C2                                                                     *)
(* ---------------------------------------------------------------------- *)
\* C2: once a handler has finished, whatever path it took, its client
\* descriptor is closed and its response buffer released; a connection the
\* acceptor could not spawn a handler for is closed too.
C2_ClosedAndReleased ==
    \A c \in Conns :
        /\ Finished(c) => ~ClientOpen(c) /\ ~res[c].alloc
        /\ tpc[c] = "dropped" => ~ClientOpen(c)

\* a handler that allocated its buffer and answered has finished, and so has
\* one whose response_init failed
C2_Witness ==
    \E c \in Conns : Finished(c) /\ oc[c].init = "ok" /\ out[c] # <<>>

(* ---------------------------------------------------------------------- *)
(* C3                                                                     *)
(* ---------------------------------------------------------------------- *)
HasResponse(c) == oc[c].init = "ok" /\ (tpc[c] = "write" \/ out[c] # <<>>)

\* C3: a GET request whose path contains ".." or does not begin with "/" is
\* answered 400 with the 400 page, and the handler makes no filesystem call
\* (stat, open, fstat, read) for it and opens no file.
C3_UnsafePathRejected ==
    \A c \in Conns :
        IsGet(sent[c]) /\ UnsafePath(PathOf(sent[c].uri)) =>
            /\ fsops[c] = <<>>
            /\ ~InFileStage(c)
            /\ ~FileOpen(c)
            /\ Answered(c) => HasResponse(c)
            /\ HasResponse(c) =>
                   /\ StatusCode(TheResponse(c)) = HTTP_BAD_REQUEST
                   /\ Body(TheResponse(c)) = <<"<", "h", "1", ">", "4", "0", "0", " ", "B", "a", "d", " ", "R", "e", "q", "u", "e", "s", "t", "<", "/", "h", "1", ">">>

C3_Witness ==
    \E c \in Conns :
        /\ IsGet(sent[c]) /\ HasDotDot(PathOf(sent[c].uri))
        /\ Finished(c) /\ out[c] # <<>>

(* ---------------------------------------------------------------------- *)
(* C4                                                                     *)
(* ---------------------------------------------------------------------- *)
\* C4 as claimed: every request line METHOD SP URI SP VERSION whose method is
\* not GET is answered 405, whatever the URI.
C4_Original ==
    \A c \in Conns :
        sent[c].form = "full" /\ sent[c].method # GET /\ HasResponse(c) =>
            StatusCode(TheResponse(c)) = HTTP_METHOD_NOT_ALLOWED

\* C4, amended: such a request is answered 405 when its method is shorter
\* than MAX_METHOD_SIZE and its URI shorter than MAX_PATH_SIZE, and 400
\* otherwise; either way the handler makes no filesystem call for it.
C4_NonGetRejected ==
    \A c \in Conns :
        sent[c].form = "full" /\ sent[c].method # GET =>
            /\ fsops[c] = <<>>
            /\ ~InFileStage(c)
            /\ Answered(c) => HasResponse(c)
            /\ HasResponse(c) =>
                   StatusCode(TheResponse(c)) =
                       IF Len(sent[c].method) >= MAX_METHOD_SIZE
                          \/ Len(sent[c].uri) >= MAX_PATH_SIZE
                       THEN HTTP_BAD_REQUEST
                       ELSE HTTP_METHOD_NOT_ALLOWED

C4_Witness ==
    \E c \in Conns :
        /\ sent[c].form = "full" /\ sent[c].method = <<"P", "O", "S", "T">> /\ sent[c].uri = <<"/", "a", ".", "t", "x", "t">>
        /\ Finished(c) /\ out[c] # <<>>
        /\ StatusCode(out[c][1]) = HTTP_METHOD_NOT_ALLOWED

(* ---------------------------------------------------------------------- *)
(* C5                                                                     *)
(* ---------------------------------------------------------------------- *)
\* C5: a request whose request line (the bytes before the first CRLF) has no
\* second space is answered 400, whatever follows the request line.
C5_MissingSecondSpace ==
    \A c \in Conns :
        sent[c].form \in {"short", "bare"} /\ HasResponse(c) =>
            StatusCode(TheResponse(c)) = HTTP_BAD_REQUEST

(* ---------------------------------------------------------------------- *)
(* C6                                                                     *)
(* ---------------------------------------------------------------------- *)
RouteBody(p) ==
    CASE p = <<"/">> -> HomeBody
      [] p = <<"/", "a", "b", "o", "u", "t">> -> AboutBody
      [] p = <<"/", "h", "e", "a", "l", "t", "h">> -> HealthBody

RouteAnswer(c) ==
    /\ fsops[c] = <<>>
    /\ ~InFileStage(c)
    /\ Answered(c) => HasResponse(c)
    /\ HasResponse(c) =>
           /\ WellFormed(TheResponse(c))
           /\ StatusCode(TheResponse(c)) = HTTP_OK
           /\ Body(TheResponse(c)) = RouteBody(PathOf(sent[c].uri))
           /\ ContentLength(TheResponse(c)) = Len(RouteBody(PathOf(sent[c].uri)))

\* C6 as claimed: a GET request whose path is "/", "/about" or "/health",
\* with any query string, is answered 200 with the handler's fixed body and
\* a Content-Length of that body's length, without any filesystem call.
C6_Original ==
    \A c \in Conns :
        IsGet(sent[c]) /\ PathOf(sent[c].uri) \in RoutePaths => RouteAnswer(c)

\* C6, amended: the same, for a query string that keeps the URI shorter than
\* MAX_PATH_SIZE; a longer URI is answered 400.
C6_RouteAnswered ==
    \A c \in Conns :
        IsGet(sent[c]) /\ PathOf(sent[c].uri) \in RoutePaths =>
            IF Len(sent[c].uri) < MAX_PATH_SIZE
            THEN RouteAnswer(c)
            ELSE HasResponse(c) => StatusCode(TheResponse(c)) = HTTP_BAD_REQUEST

C6_Witness ==
    \E c \in Conns :
        /\ IsGet(sent[c]) /\ sent[c].uri = <<"/", "a", "b", "o", "u", "t", "?", "x", "=", "1", "&", "y", "=", "t", "w", "o", "%", "2", "0", "w", "o", "r", "d", "s">>
        /\ Finished(c) /\ out[c] # <<>>
        /\ Body(out[c][1]) = AboutBody

(* ---------------------------------------------------------------------- *)
(* C7                                                                     *)
(* ---------------------------------------------------------------------- *)
\* a GET request for a safe path that matches no route and names a regular
\* file under the document root
NamesFile(r) ==
    /\ IsGet(r)
    /\ ~UnsafePath(PathOf(r.uri))
    /\ PathOf(r.uri) \notin RoutePaths
    /\ Resolve(DOCUMENT_ROOT \o PathOf(r.uri)).kind = "file"

FileAnswer(c, file) ==
    /\ StatusCode(TheResponse(c)) = HTTP_OK
    /\ ContentType(TheResponse(c)) = get_mime_type(DOCUMENT_ROOT \o file)
    /\ ContentLength(TheResponse(c)) = Len(Resolve(DOCUMENT_ROOT \o file).content)
    /\ Body(TheResponse(c)) = Resolve(DOCUMENT_ROOT \o file).content

\* C7: a GET request for an existing regular file of any size, whose open,
\* fstat, content allocation and read succeeded, is answered 200 with the
\* MIME resolver's type for the file's path, a Content-Length of the file's
\* length and the file's bytes as body.
C7_FileServed ==
    \A c \in Conns :
        /\ NamesFile(sent[c])
        /\ oc[c].open = "ok" /\ oc[c].file = "ok"
        /\ HasResponse(c)
        => FileAnswer(c, PathOf(sent[c].uri))

(* ---------------------------------------------------------------------- *)
(* C8                                                                     *)
(* ---------------------------------------------------------------------- *)
EndsWithSlash(p) == Len(p) > 0 /\ p[Len(p)] = "/"
\* the request path of the index file of directory path p
IndexPath(p) == IF EndsWithSlash(p) THEN p \o DEFAULT_INDEX ELSE p \o <<"/">> \o DEFAULT_INDEX

\* a GET request whose path names a directory that holds index.html
NamesDirWithIndex(r) ==
    /\ IsGet(r)
    /\ Len(r.uri) < MAX_PATH_SIZE
    /\ ~UnsafePath(PathOf(r.uri))
    /\ Resolve(DOCUMENT_ROOT \o PathOf(r.uri)).kind = "dir"
    /\ Resolve(DOCUMENT_ROOT \o IndexPath(PathOf(r.uri))).kind = "file"

\* the bytes a handler writes for request r when its calls fare as o records
\* (a call o does not mention succeeds)
ResponseTo(r, o) ==
    LET buffer == Take(Render(r), BUFFER_SIZE - 1) \o <<NUL>>
        grow == o.grow # "fail"
        d == Dispatch(buffer, response_init(BUFFER_SIZE, TRUE), grow)
        entry == Resolve(d.filepath)
    IN  IF d.next = "write" THEN d.res.data
        ELSE IF o.open = "fail" \/ entry.kind = "none"
        THEN ServeOpenFailed(d.res, grow).data
        ELSE IF o.file \in {"fstat", "malloc", "short"} \/ entry.kind # "file"
        THEN ServeFailed(d.res, grow).data
        ELSE ServeRead(d.res, d.filepath,
                       [size |-> Len(entry.content), data |-> entry.content,
                        bytes_read |-> Len(entry.content), alloc |-> TRUE],
                       grow).data

IndexRequest(r) == [r EXCEPT !.uri = IndexPath(PathOf(r.uri))]

OutcomeAlone(c) ==
    IF oc[c].init = "ok" THEN <<ResponseTo(sent[c], oc[c])>> ELSE <<>>

\* the handler of c sits in read() and its peer stays silent
Stalled(c) == tpc[c] = "read" /\ peer[c] = "connected" /\ sent[c] = NoRequest

\* C9: under fair scheduling of the threads and as long as no shutdown has
\* been signalled, whatever the other handlers do (finish, fail or stay
\* blocked in read on a silent peer), every connection waiting in the listen
\* queue is eventually accepted, and every connection whose peer has sent its
\* request is eventually finished and closed with exactly the outcome it has
\* when handled on its own.
C9_HandlersIndependent ==
    /\ \A c \in Conns : (c \in Pending) ~> (tpc[c] # "unborn" \/ signalled)
    /\ \A c \in Conns :
          (tpc[c] = "read" /\ sent[c] # NoRequest)
              ~> (signalled \/ (Finished(c) /\ ~ClientOpen(c) /\ out[c] = OutcomeAlone(c)))

\* a later connection has been answered and closed while the handler of an
\* earlier one is still blocked on its silent peer
C9_Witness ==
    \E c, d \in Conns :
        /\ c < d
        /\ Stalled(c)
        /\ Finished(d) /\ ~ClientOpen(d)
        /\ sent[d] # NoRequest /\ out[d] # <<>> /\ out[d] = OutcomeAlone(d)
        /\ ~signalled

(* ---------------------------------------------------------------------- *)
(* C10                                                                    *)
(* ---------------------------------------------------------------------- *)
\* run_server has returned success after "Server shutdown complete"
Stopped == exit_status = EXIT_SUCCESS
\* the acceptor is inside its accept loop
InAcceptLoop == apc \in {"loop", "accept", "spawn"}
\* faults of startup that are the environment's doing
StartupFaults == {"socket", "setup"}

\* C10 as stated, for a signal delivered at any point: once the signal has been
\* delivered, run_server reports no fault caused by it and does not return
\* failure unless startup failed for a reason of the environment.
C10_Original ==
    signalled =>
        /\ "setup on a closed descriptor" \notin log
        /\ exit_status = EXIT_FAILURE => log \cap StartupFaults # {}

\* C10: whenever the shutdown signal has been delivered and the acceptor is in
\* its accept loop (the signal came before socket() was called and startup
\* succeeded, or it came at the loop test, during accept or while a handler
\* was being spawned), the acceptor eventually leaves the loop and reaches
\* Stopped, and no accept failure is reported as a fault once the signal has
\* been delivered.
C10_ShutdownStops ==
    /\ (signalled /\ InAcceptLoop) ~> Stopped
    /\ [][signalled /\ "accept" \in log' => "accept" \in log]_vars

\* the acceptor has left the loop through a failed accept on the descriptor
\* the signal handler closed, and has reported no accept fault
C10_Witness ==
    /\ signalled
    /\ apc = "stopped"
    /\ Stopped
    /\ "accept" \notin log
    /\ \E c \in Conns : Running(c)

\* the signal arrived between socket() and listen(): startup failed on the
\* closed descriptor
C10_SetupWindow ==
    signalled /\ exit_status = EXIT_FAILURE /\ "setup on a closed descriptor" \in log

(* ---------------------------------------------------------------------- *)
(* C11                                                                    *)
(* ---------------------------------------------------------------------- *)
\* C11: a handler that is in flight when the shutdown signal arrives is not
\* interrupted: no handler thread is ever ended by the return of main before
\* it has closed its connection.
C11_InFlightComplete ==
    signalled => \A c \in Conns : tpc[c] # "killed"

(* ---------------------------------------------------------------------- *)
(* C12                                                                    *)
(* ---------------------------------------------------------------------- *)
\* a GET request for one of the built-in routes
RouteRequest(r) == IsGet(r) /\ r.uri \in RoutePaths
\* the response to a route request handled on its own
RouteResponse(r) == ResponseTo(r, NoOutcome)

\* C12: with several connections handled at the same time, each asking for a
\* built-in route, under every interleaving of the handler threads the buffer
\* a handler has assembled and the bytes its connection has received are
\* exactly the response to its own request (status 200 and the body of its
\* own route), never the response to another connection's request; a handler
\* that allocated its buffer and finished has written that response.
C12_OwnResponse ==
    \A c \in Conns :
        RouteRequest(sent[c]) =>
            /\ tpc[c] = "write" => Take(res[c].data, res[c].size) = RouteResponse(sent[c])
            /\ out[c] \in {<<>>, <<RouteResponse(sent[c])>>}
            /\ Finished(c) /\ oc[c].init = "ok" =>
                   /\ out[c] = <<RouteResponse(sent[c])>>
                   /\ StatusCode(out[c][1]) = HTTP_OK
                   /\ Body(out[c][1]) = RouteBody(sent[c].uri)
            /\ \A d \in Conns \ {c} :
                   RouteRequest(sent[d]) /\ sent[d].uri # sent[c].uri =>
                       out[c] # <<RouteResponse(sent[d])>>

\* a later connection has received the response of its own route while the
\* handler of an earlier one, asked for another route, still holds the
\* response it has assembled
C12_Witness ==
    \E c, d \in Conns :
        /\ d < c
        /\ RouteRequest(sent[c]) /\ RouteRequest(sent[d]) /\ sent[c].uri # sent[d].uri
        /\ tpc[d] = "write" /\ res[d].size > 0
        /\ Finished(c) /\ out[c] = <<RouteResponse(sent[c])>>


(* ---------------------------------------------------------------------- *)
(* C13, C18: what the query string and its decoding are said to be         *)
(* ---------------------------------------------------------------------- *)
\* the decoding as stated: a '%' and two hexadecimal digits give one byte,
\* '+' gives a space, everything else is itself; at most dst_size - 1 bytes
StatedDecode(src, dst_size) ==
    LET triples == {p \in 1..Len(src) :
                      src[p] = "%" /\ p + 2 <= Len(src)
                      /\ IsHex(src[p + 1]) /\ IsHex(src[p + 2])}
        visited == {p \in 1..Len(src) : (p - 1) \notin triples /\ (p - 2) \notin triples}
        count == MinOf({Cardinality(visited), dst_size - 1})
        at == [p \in 1..Len(src) |-> Cardinality({q \in visited : q <= p})]
    IN  [k \in 1..count |->
            LET p == CHOOSE p \in visited : at[p] = k
            IN  IF p \in triples
                THEN ByteOf[16 * HexVal(src[p + 1]) + HexVal(src[p + 2]) + 1]
                ELSE IF src[p] = "+" THEN " " ELSE src[p]]

HasEq(seg) == \E i \in 1..Len(seg) : seg[i] = "="
FirstEq(seg) == CHOOSE i \in 1..Len(seg) : seg[i] = "=" /\ \A j \in 1..(i - 1) : seg[j] # "="

\* the pairs as stated: one for each segment with an '=', in order, the first 32
StatedParams(segs) ==
    LET kept == SelectSeq(segs, HasEq)
    IN  [i \in 1..MinOf({Len(kept), MAX_QUERY_PARAMS}) |->
            [key |-> StatedDecode(SubSeq(kept[i], 1, FirstEq(kept[i]) - 1), MAX_PARAM_SIZE),
             value |-> StatedDecode(SubSeq(kept[i], FirstEq(kept[i]) + 1, Len(kept[i])),
                                    MAX_PARAM_SIZE)]]

\* C13: parse_query_string returns, in order, one decoded (key, value) pair for
\* each '&'-separated segment with an '=', split at its first '='; segments
\* without '=' are dropped; at most 32 pairs are stored
C13_QueryPairs ==
    unit.fn = "parse_query_string" => unit.params = StatedParams(unit.segs)


(* ---------------------------------------------------------------------- *)
(* C14                                                                     *)
(* ---------------------------------------------------------------------- *)
\* C14: when an allocation fails while the response is assembled (the buffer's
\* initial allocation or a growth of it), the handler writes nothing to the
\* socket of that connection.
C14_NoPartialWrite ==
    \A c \in Conns :
        (oc[c].init = "fail" \/ oc[c].grow = "fail") => out[c] = <<>>


(* ---------------------------------------------------------------------- *)
(* C15                                                                     *)
(* ---------------------------------------------------------------------- *)
RECURSIVE IsDoubling(_, _)
\* new is old times 2, 4, 8, ...
IsDoubling(old, new) ==
    /\ old > 0 /\ new > old
    /\ new % 2 = 0
    /\ (new \div 2 = old \/ IsDoubling(old, new \div 2))

\* the call just made was a response_append or a response_printf
BufferCalled == unit.fn = "response" /\ unit.calls > 0

\* C15: after response_init(8192) and any calls of response_append and
\* response_printf, size + 1 <= capacity; a call never lowers the capacity; a
\* call whose bytes did not fit and that succeeded leaves the old capacity
\* times a power of two, at least doubled and large enough; a failed call
\* leaves data, size and capacity as they were.
C15_BufferInvariant ==
    /\ (unit.fn = "response" /\ unit.res.alloc) => unit.res.size + 1 <= unit.res.capacity
    /\ BufferCalled =>
         /\ unit.res.capacity >= unit.before.capacity
         /\ (unit.rc = 0 /\ unit.before.size + unit.len + 1 > unit.before.capacity) =>
                /\ IsDoubling(unit.before.capacity, unit.res.capacity)
                /\ unit.res.capacity >= unit.before.size + unit.len + 1
                /\ unit.res.size = unit.before.size + unit.len
         /\ unit.rc # 0 => unit.res = unit.before

\* a buffer grown by two doublings at once, and then a call that failed
C15_Witness ==
    /\ BufferCalled /\ unit.rc # 0
    /\ unit.res.capacity = 4 * BUFFER_SIZE
    /\ unit.res.size > 2 * BUFFER_SIZE


(* ---------------------------------------------------------------------- *)
(* C16                                                                     *)
(* ---------------------------------------------------------------------- *)
\* serve_static_file has returned for the request of c
ResolverReturned(c) ==
    /\ IsGet(sent[c]) /\ oc[c].init = "ok"
    /\ tpc[c] \in {"write", "close", "done"}

\* C16: the resolver's gates answer in order: an unsafe path 400, else a
\* failed open 404, else a failed fstat, a failed allocation of the content
\* buffer or a short read 500; and whenever it has returned, the descriptor it
\* opened is closed and the content buffer is freed.
C16_GatesAndRelease ==
    \A c \in Conns :
        /\ ResolverReturned(c) => ~FileOpen(c) /\ ~fbuf[c].alloc
        /\ (IsGet(sent[c]) /\ HasResponse(c)) =>
             /\ (PathOf(sent[c].uri) \notin RoutePaths /\ UnsafePath(PathOf(sent[c].uri))) =>
                    /\ StatusCode(TheResponse(c)) = HTTP_BAD_REQUEST
                    /\ oc[c].open = ""
             /\ oc[c].open \in {"fail", "absent"} =>
                    /\ StatusCode(TheResponse(c)) = HTTP_NOT_FOUND
                    /\ oc[c].file = ""
             /\ oc[c].file \in {"fstat", "malloc", "short"} =>
                    StatusCode(TheResponse(c)) = HTTP_INTERNAL_ERROR

\* the file was opened, fstat or the allocation failed, and the 500 was written
C16_Witness ==
    \E c \in Conns :
        /\ oc[c].open = "ok" /\ oc[c].file \in {"fstat", "malloc"}
        /\ Finished(c) /\ out[c] # <<>>
        /\ ~FileOpen(c)


(* ---------------------------------------------------------------------- *)
(* C17                                                                     *)
(* ---------------------------------------------------------------------- *)
\* accept returned -1 in this step while no shutdown was requested
AcceptFailure == apc = "accept" /\ apc' \notin {"accept", "spawn"} /\ keep_running # 0
\* malloc of the client record or pthread_create failed in this step
SpawnFailure == apc = "spawn" /\ apc' # "spawn" /\ tpc'[acc.conn] = "dropped"

\* C17: a failed accept without a shutdown request, a failed allocation of the
\* client record and a failed pthread_create all take the acceptor back to the
\* loop test, which sends it into accept again unless a shutdown was requested
\* meanwhile; after the two spawn failures the accepted descriptor is closed.
C17_AcceptorContinues ==
    [][ /\ AcceptFailure => apc' = "loop"
        /\ SpawnFailure => /\ apc' = "loop"
                           /\ fdtab[acc.fd].kind = "client"
                           /\ fdtab'[acc.fd] = Free
                           /\ ~ClientOpen(acc.conn)'
        /\ (apc = "loop" /\ apc' # "loop" /\ keep_running # 0) => apc' = "accept"
      ]_vars

\* after a reported accept failure and a failed pthread_create the acceptor is
\* in accept again
C17_Witness ==
    /\ {"accept", "pthread_create"} \subseteq log
    /\ \E c \in Conns : tpc[c] = "dropped" /\ ~ClientOpen(c)
    /\ apc = "accept" /\ keep_running # 0


(* ---------------------------------------------------------------------- *)
(* C18                                                                     *)
(* ---------------------------------------------------------------------- *)
\* C18: url_decode replaces a '%' and two hexadecimal digits by the byte of
\* that value, copies a '%' followed by anything else literally, turns '+'
\* into a space, copies every other byte, and writes at most dst_size - 1
\* bytes.
C18_DecodeAsStated ==
    unit.fn = "url_decode" =>
        /\ unit.dst = StatedDecode(unit.src, unit.dst_size)
        /\ Len(unit.dst) <= unit.dst_size - 1


(* ---------------------------------------------------------------------- *)
(* C19                                                                     *)
(* ---------------------------------------------------------------------- *)
\* C19: every close is issued by the owner on a descriptor that is still open
\* and still its own: run_server's close of the listening descriptor, the
\* acceptor's close of a client descriptor after a failed spawn, a handler's
\* close of its client descriptor and of the file it opened.
C19_ClosedOnceByOwner ==
    [][ /\ (apc \in {"setup", "shutdown"} /\ apc' \in {"failed", "stopped"}) =>
               fdtab[server_fd].kind \in {"sock", "listen"}
        /\ (apc = "spawn" /\ apc' # "spawn" /\ tpc'[acc.conn] = "dropped") =>
               (fdtab[acc.fd].kind = "client" /\ fdtab[acc.fd].owner = acc.conn)
        /\ \A c \in Conns :
             /\ (tpc[c] = "close" /\ tpc'[c] = "done" /\ cfd[c] # -1) =>
                    (fdtab[cfd[c]].kind = "client" /\ fdtab[cfd[c]].owner = c)
             /\ (tpc[c] \in {"fstat", "fclose"} /\ tpc'[c] = "write") =>
                    (fdtab[ffd[c]].kind = "file" /\ fdtab[ffd[c]].owner = c)
      ]_vars


(* ---------------------------------------------------------------------- *)
(* C20                                                                     *)
(* ---------------------------------------------------------------------- *)
ErrorStatuses == {HTTP_BAD_REQUEST, HTTP_NOT_FOUND, HTTP_METHOD_NOT_ALLOWED,
                  HTTP_INTERNAL_ERROR}
\* <h1>NNN Reason</h1>
ErrorText(status) ==
    <<"<", "h", "1", ">">> \o Decimal(status) \o SP \o StatusText(status) \o <<"<", "/", "h", "1", ">">>

\* C20: the body of every error response (400, 404, 405, 500) is the text
\* <h1>NNN Reason</h1> and nothing else, and its Content-Length is the length
\* of that text.
C20_ErrorBodyExact ==
    \A c \in Conns :
        (HasResponse(c) /\ StatusCode(TheResponse(c)) \in ErrorStatuses) =>
            /\ Body(TheResponse(c)) = ErrorText(StatusCode(TheResponse(c)))
            /\ ContentLength(TheResponse(c)) = Len(ErrorText(StatusCode(TheResponse(c))))

====
